---- MODULE Spec2Model ----
(***************************************************************************)
(* The Worker lifecycle controller of crates/base/src/rt_worker/worker.rs. *)
(*                                                                         *)
(* One Worker record (Worker::new) and up to MaxRuns calls of              *)
(* Worker::start on it.  Every call spawns one boot task; the task's       *)
(* statements between two suspension points are the actions below, in      *)
(* program order.  The collaborators whose code is outside the source      *)
(* tree (create_supervisor, handle_creation, handle_error,                 *)
(* send_event_if_event_worker_available) are modelled from the design      *)
(* document and are marked as such where they are defined.                 *)
(*                                                                         *)
(* Further down, each under a specification of its own: the                *)
(* heap-statistics request of crates/sb_core/lib.rs (SpecMetrics), and,    *)
(* from the design document, the Supervisor's governance (SpecSupervisor)  *)
(* and the registry of Pool Coordination (SpecRegistry); and the           *)
(* Diffie-Hellman key generation of crates/node/ops/crypto/dh.rs (SpecDh). *)
(***************************************************************************)
EXTENDS Naturals, Sequences, FiniteSets

\* Number of start() calls made on the Worker.
MaxRuns == 1

Runs == 1..MaxRuns

None == "None"

\* Worker Identity values (Uuid); NilKey is Uuid::nil().
Keys == {"k1"}
NilKey == "nil"

\* SupervisorPolicy tags, and the value of SupervisorPolicy::default().
Policies == {"PerWorker", "PerRequest"}
DefaultPolicy == "PerWorker"

\* The timing payload opts.timing may carry.
Timings == {"t1"}

VARIABLES
    worker,         \* the Worker record: the fields of struct Worker
    pool_rx_open,   \* the registry still holds the pool channel's receiver
    pool_log,       \* every send made on pool_msg_tx, in order
    events_log,     \* every event pushed on events_msg_tx, in order
    cancel_raised,  \* the shared cancellation signal has been raised
    pc,             \* per start() call: the position of its boot task
    task,           \* per call: the values captured by the spawned future
    engine_opts,    \* per call: the configuration moved into DenoRuntime::new
    boot_result,    \* per call: what DenoRuntime::new returned
    booter_signal,  \* per call: the single-shot boot signal channel
    stream,         \* per call: who owns unix_channel_rx
    term_tx,        \* per call: who owns termination_event_tx
    term_chan,      \* per call: the content of the termination channel
    sup,            \* per call: the Supervisor created for it
    cpu_timer,      \* per call: the guard returned by create_supervisor
    result          \* per call: the `result` of the boot / run match

\* The heap-statistics request of crates/sb_core/lib.rs (its actions are
\* further down).
VARIABLES
    hs_pc,          \* the position of the requester in get_heap_statistics
    hs_event,       \* RuntimeMetricSource.event is Some
    isolate,        \* per engine: the isolate behind WorkerMetricSource.handle
    interrupt,      \* per engine: the interrupt request_interrupt queued
    req,            \* per engine: the InterruptData box, its channel, the waker
    heap_stats,     \* the RuntimeHeapStatistics being built
    op_state,       \* the RefCell<OpState>: the shared borrows outstanding
    borrow_mut_error \* a borrow_mut of the op state found it borrowed

opVars == <<op_state, borrow_mut_error>>

metricsVars == <<hs_pc, hs_event, isolate, interrupt, req, heap_stats, opVars>>

\* The Supervisor's governance, design document section 4.2 (its actions
\* are further down).
VARIABLES
    sv,             \* the Supervisor: state, policy, accumulator, requests
    sv_cancel,      \* the shared cancellation signal it waits on is raised
    sv_chan,        \* the single-shot termination channel it writes
    sv_obs          \* what the engine really did: CPU used, requests, ticks

supVars == <<sv, sv_cancel, sv_chan, sv_obs>>

\* The registry of Pool Coordination, design document section 4.3 (its
\* actions are further down).
VARIABLES
    registry,       \* the live records, what is keyed by them, the errors
    reg_inbox,      \* the Shutdown messages sent and not yet consumed
    reg_log         \* every message consumed: its identity, was it live

regVars == <<registry, reg_inbox, reg_log>>

\* The Diffie-Hellman key generation of crates/node/ops/crypto/dh.rs (its
\* action is further down).
VARIABLES
    dh              \* the DiffieHellman last built: its group, its private key

dhVars == <<dh>>

auxVars == <<metricsVars, supVars, regVars, dhVars>>

workerVars == <<worker, pool_rx_open, pool_log, events_log, cancel_raised, pc,
                task, engine_opts, boot_result, booter_signal, stream, term_tx,
                term_chan, sup, cpu_timer, result>>

vars == <<workerVars, auxVars>>

\* What the heap-statistics request neither reads nor writes.
notMetricsVars == <<workerVars, supVars, regVars, dhVars>>

\* What the Supervisor's governance neither reads nor writes.
notSupVars == <<workerVars, metricsVars, regVars, dhVars>>

\* What the registry neither reads nor writes.
notRegVars == <<workerVars, metricsVars, supVars, dhVars>>

\* What the key generation neither reads nor writes.
notDhVars == <<workerVars, metricsVars, supVars, regVars>>

runVars == <<pc, task, engine_opts, boot_result, booter_signal, stream,
             term_tx, term_chan, sup, cpu_timer, result>>

Option(S) == S \cup {None}

\* Option<SupervisorPolicy>::unwrap_or_default
UnwrapOrDefault(p) == IF p = None THEN DefaultPolicy ELSE p

\* Option<Uuid>::unwrap_or(Uuid::nil())
UnwrapOrNil(k) == IF k = None THEN NilKey ELSE k

\* Result<WorkerEvents, Error>
NoResult == [tag |-> "none", event |-> None]
Ok(e) == [tag |-> "Ok", event |-> e]
Err == [tag |-> "Err", event |-> None]

NoTask == [events_msg_tx |-> FALSE, event_metadata |-> None, cancel |-> FALSE,
           supervisor_policy |-> None, worker_key |-> None,
           pool_msg_tx |-> FALSE, timing |-> None, is_user_worker |-> FALSE]

NoSupervisor == [state |-> "none", key |-> None, policy |-> None,
                 timing |-> None, pool_msg_tx |-> FALSE, cancel |-> FALSE,
                 cause |-> None]

\* The two engines a RuntimeMetricSource names: main and event.
Engines == {"main", "event"}

\* A position of the requester: the step it is at and the engine it asks.
At(step, e) == [at |-> step, engine |-> e]

\* No heap-statistics request made of an engine yet.
NoRequest == [boxed |-> FALSE, reclaimed |-> <<>>, heap_chan |-> "none",
              woken |-> FALSE, accepted |-> "none"]

\* No heap-statistics request in progress.
MetricsQuiet ==
    /\ hs_pc = At("idle", None)
    /\ hs_event = FALSE
    /\ isolate = [e \in Engines |-> "running"]
    /\ interrupt = [e \in Engines |-> "none"]
    /\ req = [e \in Engines |-> NoRequest]
    /\ heap_stats = [main |-> "unset", event |-> "unset"]
    /\ op_state = 0
    /\ borrow_mut_error = FALSE

\* No Supervisor created, nothing observed.
NoSv == [state |-> "none", policy |-> None, acc |-> 0, pending |-> 0,
         marked |-> FALSE, cause |-> None]

NoObs == [late |-> 0, used |-> 0, peak |-> 0, sum |-> 0, requests |-> 0,
          raised_in |-> None]

SupervisorQuiet ==
    /\ sv = NoSv
    /\ sv_cancel = FALSE
    /\ sv_chan = None
    /\ sv_obs = NoObs

\* An empty registry, nothing sent to it.
NoRegistry == [records |-> {}, routes |-> {}, seen |-> {}, failed |-> FALSE]

RegistryQuiet ==
    /\ registry = NoRegistry
    /\ reg_inbox = <<>>
    /\ reg_log = <<>>

\* No DiffieHellman built.
NoDh == [group |-> None, private_key |-> [bit_size |-> 0, bits |-> 0]]

DhQuiet == dh = NoDh

AuxQuiet == MetricsQuiet /\ SupervisorQuiet /\ RegistryQuiet /\ DhQuiet

\* Worker::new: the record built from the configuration, no policy set.
Init ==
    /\ AuxQuiet
    /\ worker \in [events_msg_tx : BOOLEAN, pool_msg_tx : BOOLEAN,
                   cancel : BOOLEAN, event_metadata : {"meta"},
                   worker_key : Option(Keys), supervisor_policy : {None}]
    /\ pool_rx_open = TRUE
    /\ pool_log = <<>>
    /\ events_log = <<>>
    /\ cancel_raised = FALSE
    /\ pc = [r \in Runs |-> "idle"]
    /\ task = [r \in Runs |-> NoTask]
    /\ engine_opts = [r \in Runs |-> [timing |-> None, is_user_worker |-> FALSE]]
    /\ boot_result = [r \in Runs |-> "none"]
    /\ booter_signal = [r \in Runs |-> "none"]
    /\ stream = [r \in Runs |-> "caller"]
    /\ term_tx = [r \in Runs |-> "none"]
    /\ term_chan = [r \in Runs |-> "none"]
    /\ sup = [r \in Runs |-> NoSupervisor]
    /\ cpu_timer = [r \in Runs |-> "none"]
    /\ result = [r \in Runs |-> NoResult]

(***************************************************************************)
(* Worker::start, the part that runs in the caller (lines 83-97, 179).     *)
(***************************************************************************)

\* What becomes of a task spawned on the LocalSet of lines 95-97.  tokio polls
\* the tasks of a LocalSet only while the set is driven, and shuts down the
\* tasks of a set that is dropped; the set is a local of the block that line
\* 179 closes.  "polled": the task runs to its end.  "shutdown": the task is
\* dropped with the set, before its first poll.
LocalSetOutcomes == {"polled", "shutdown"}

\* The captures of lines 83-91.
Capture(w, uw, tm) ==
    [events_msg_tx |-> w.events_msg_tx,
     event_metadata |-> w.event_metadata,
     cancel |-> w.cancel,
     supervisor_policy |-> UnwrapOrDefault(w.supervisor_policy),
     worker_key |-> w.worker_key,
     pool_msg_tx |-> w.pool_msg_tx,
     timing |-> tm,
     is_user_worker |-> uw]

\* opts.timing.clone() in place of take(): the payload stays in the
\* configuration.
TimingTake_Clone(tm) == [taken |-> tm, left |-> tm]

\* opts.timing.take() (line 89): the payload is moved out, None is left in the
\* configuration.
TimingTake(tm) == [taken |-> tm, left |-> None]

\* start(opts, unix_channel_rx, booter_signal): call number r on the Worker.
Start(r) ==
    /\ pc[r] = "idle"
    /\ (r > 1) => (pc[r - 1] # "idle")
    /\ \E uw \in BOOLEAN, tm \in Option(Timings), o \in LocalSetOutcomes :
        /\ task' = [task EXCEPT
                      ![r] = Capture(worker, uw, TimingTake(tm).taken)]
        \* what is left of opts is moved into the task and on into the engine
        /\ engine_opts' = [engine_opts EXCEPT
                             ![r] = [timing |-> TimingTake(tm).left,
                                     is_user_worker |-> uw]]
        /\ pc' = [pc EXCEPT ![r] = IF o = "polled" THEN "boot" ELSE "cancelled"]
        \* a task that is shut down drops the sender and the stream it captured
        /\ booter_signal' = [booter_signal EXCEPT
                               ![r] = IF o = "polled" THEN "pending" ELSE "closed"]
        /\ stream' = [stream EXCEPT
                        ![r] = IF o = "polled" THEN "task" ELSE "dropped"]
    /\ UNCHANGED <<auxVars,
                   worker, pool_rx_open, pool_log, events_log, cancel_raised,
                   boot_result, term_tx, term_chan, sup, cpu_timer, result>>

(***************************************************************************)
(* The boot task (lines 97-178).                                           *)
(***************************************************************************)

\* WorkerHandler::handle_error: the terminal event describing a boot failure.
handle_error == Ok("BootFailure")

\* BootOk with the boot signal left for later: the success value is not sent
\* when the engine has booted.
BootOk_NoSignal(r) ==
    /\ pc[r] = "boot"
    /\ boot_result' = [boot_result EXCEPT ![r] = "ok"]
    /\ term_tx' = [term_tx EXCEPT ![r] = "task"]
    /\ term_chan' = [term_chan EXCEPT ![r] = "empty"]
    /\ pc' = [pc EXCEPT ![r] = "booted"]
    /\ UNCHANGED <<auxVars,
                   worker, pool_rx_open, pool_log, events_log, cancel_raised,
                   task, engine_opts, booter_signal, stream, sup, cpu_timer,
                   result>>

\* DenoRuntime::new returned Ok: the boot signal is sent and the termination
\* channel is created (lines 102-108).
BootOk(r) ==
    /\ pc[r] = "boot"
    /\ boot_result' = [boot_result EXCEPT ![r] = "ok"]
    /\ booter_signal' = [booter_signal EXCEPT ![r] = "ok"]
    /\ term_tx' = [term_tx EXCEPT ![r] = "task"]
    /\ term_chan' = [term_chan EXCEPT ![r] = "empty"]
    /\ pc' = [pc EXCEPT ![r] = "booted"]
    /\ UNCHANGED <<auxVars,
                   worker, pool_rx_open, pool_log, events_log, cancel_raised,
                   task, engine_opts, stream, sup, cpu_timer, result>>

\* BootErr that leaves the match without reporting its result: the error arm
\* goes straight to the pool notification.
BootErr_SkipReport(r) ==
    /\ pc[r] = "boot"
    /\ boot_result' = [boot_result EXCEPT ![r] = "err"]
    /\ booter_signal' = [booter_signal EXCEPT ![r] = "err"]
    /\ result' = [result EXCEPT ![r] = handle_error]
    /\ pc' = [pc EXCEPT ![r] = "notify"]
    /\ UNCHANGED <<auxVars,
                   worker, pool_rx_open, pool_log, events_log, cancel_raised,
                   task, engine_opts, stream, term_tx, term_chan, sup, cpu_timer>>

\* DenoRuntime::new returned Err (lines 137-140).
BootErr(r) ==
    /\ pc[r] = "boot"
    /\ boot_result' = [boot_result EXCEPT ![r] = "err"]
    /\ booter_signal' = [booter_signal EXCEPT ![r] = "err"]
    /\ result' = [result EXCEPT ![r] = handle_error]
    /\ pc' = [pc EXCEPT ![r] = "report"]
    /\ UNCHANGED <<auxVars,
                   worker, pool_rx_open, pool_log, events_log, cancel_raised,
                   task, engine_opts, stream, term_tx, term_chan, sup, cpu_timer>>

\* The Supervisor create_supervisor builds from its arguments (lines 115-124).
NewSupervisor(t) ==
    [state |-> "Idle",
     key |-> UnwrapOrNil(t.worker_key),
     policy |-> t.supervisor_policy,
     timing |-> t.timing,
     pool_msg_tx |-> t.pool_msg_tx,
     cancel |-> t.cancel,
     cause |-> None]

\* `if is_user_worker` is false and the sender, which nobody takes, is
\* dropped there and then: the channel closes.
SkipSupervisor_DropSender(r) ==
    /\ pc[r] = "booted"
    /\ ~task[r].is_user_worker
    /\ term_tx' = [term_tx EXCEPT ![r] = "dropped"]
    /\ term_chan' = [term_chan EXCEPT ![r] = "closed"]
    /\ pc' = [pc EXCEPT ![r] = "handle"]
    /\ UNCHANGED <<auxVars,
                   worker, pool_rx_open, pool_log, events_log, cancel_raised,
                   task, engine_opts, boot_result, booter_signal, stream,
                   sup, cpu_timer, result>>

\* `if is_user_worker` is false (line 113): no Supervisor, the sender stays
\* with the task.
SkipSupervisor(r) ==
    /\ pc[r] = "booted"
    /\ ~task[r].is_user_worker
    /\ pc' = [pc EXCEPT ![r] = "handle"]
    /\ UNCHANGED <<auxVars,
                   worker, pool_rx_open, pool_log, events_log, cancel_raised,
                   task, engine_opts, boot_result, booter_signal, stream,
                   term_tx, term_chan, sup, cpu_timer, result>>

\* CreateSupervisorOk without the `if is_user_worker` test.
CreateSupervisorOk_Always(r) ==
    /\ pc[r] = "booted"
    /\ sup' = [sup EXCEPT ![r] = NewSupervisor(task[r])]
    /\ term_tx' = [term_tx EXCEPT ![r] = "supervisor"]
    /\ cpu_timer' = [cpu_timer EXCEPT ![r] = "alive"]
    /\ pc' = [pc EXCEPT ![r] = "handle"]
    /\ UNCHANGED <<auxVars,
                   worker, pool_rx_open, pool_log, events_log, cancel_raised,
                   task, engine_opts, boot_result, booter_signal, stream,
                   term_chan, result>>

\* CreateSupervisorOk that does not bind the guard (`let _ = ...`): it is
\* dropped at once.
CreateSupervisorOk_DropGuard(r) ==
    /\ pc[r] = "booted"
    /\ task[r].is_user_worker
    /\ sup' = [sup EXCEPT ![r] = NewSupervisor(task[r])]
    /\ term_tx' = [term_tx EXCEPT ![r] = "supervisor"]
    /\ cpu_timer' = [cpu_timer EXCEPT ![r] = "dropped"]
    /\ pc' = [pc EXCEPT ![r] = "handle"]
    /\ UNCHANGED <<auxVars,
                   worker, pool_rx_open, pool_log, events_log, cancel_raised,
                   task, engine_opts, boot_result, booter_signal, stream,
                   term_chan, result>>

\* CreateSupervisorOk that reads the policy from the Worker when the Supervisor
\* is created, not from the value captured by start().
CreateSupervisorOk_LatePolicy(r) ==
    /\ pc[r] = "booted"
    /\ task[r].is_user_worker
    /\ sup' = [sup EXCEPT
                 ![r] = [NewSupervisor(task[r]) EXCEPT
                           !.policy = UnwrapOrDefault(worker.supervisor_policy)]]
    /\ term_tx' = [term_tx EXCEPT ![r] = "supervisor"]
    /\ cpu_timer' = [cpu_timer EXCEPT ![r] = "alive"]
    /\ pc' = [pc EXCEPT ![r] = "handle"]
    /\ UNCHANGED <<auxVars,
                   worker, pool_rx_open, pool_log, events_log, cancel_raised,
                   task, engine_opts, boot_result, booter_signal, stream,
                   term_chan, result>>

\* create_supervisor returned Ok(guard) (lines 113-125).
CreateSupervisorOk(r) ==
    /\ pc[r] = "booted"
    /\ task[r].is_user_worker
    /\ sup' = [sup EXCEPT ![r] = NewSupervisor(task[r])]
    /\ term_tx' = [term_tx EXCEPT ![r] = "supervisor"]
    /\ cpu_timer' = [cpu_timer EXCEPT ![r] = "alive"]
    /\ pc' = [pc EXCEPT ![r] = "handle"]
    /\ UNCHANGED <<auxVars,
                   worker, pool_rx_open, pool_log, events_log, cancel_raised,
                   task, engine_opts, boot_result, booter_signal, stream,
                   term_chan, result>>

\* create_supervisor returned Err: the `?` of line 124 returns from the task.
\* The sender moved into the call is gone, and so is everything the task owns.
CreateSupervisorErr(r) ==
    /\ pc[r] = "booted"
    /\ task[r].is_user_worker
    /\ sup' = [sup EXCEPT ![r] = [NoSupervisor EXCEPT !.state = "failed"]]
    /\ term_tx' = [term_tx EXCEPT ![r] = "dropped"]
    /\ term_chan' = [term_chan EXCEPT ![r] = "closed"]
    /\ stream' = [stream EXCEPT ![r] = "dropped"]
    /\ pc' = [pc EXCEPT ![r] = "done"]
    /\ UNCHANGED <<auxVars,
                   worker, pool_rx_open, pool_log, events_log, cancel_raised,
                   task, engine_opts, boot_result, booter_signal, cpu_timer,
                   result>>

\* handle_creation is called with the engine, the connection stream and the
\* termination receiver; the task then awaits its future (lines 127-134).
HandleCreation(r) ==
    /\ pc[r] = "handle"
    /\ stream' = [stream EXCEPT ![r] = "engine"]
    /\ pc' = [pc EXCEPT ![r] = "running"]
    /\ UNCHANGED <<auxVars,
                   worker, pool_rx_open, pool_log, events_log, cancel_raised,
                   task, engine_opts, boot_result, booter_signal, term_tx,
                   term_chan, sup, cpu_timer, result>>

(***************************************************************************)
(* The Supervisor (design document, section 4.2): Idle -> Active ->        *)
(* Terminating -> Reported.  It governs while its guard is alive.          *)
(***************************************************************************)

\* What can make a Supervisor terminate its engine.
Causes == {"policy", "cancel", "fault", "complete"}

\* The Termination Outcome a cause is reported as.
OutcomeOf(c) == IF c = "fault" THEN "UncaughtException" ELSE "Shutdown"

Governing(r) ==
    /\ pc[r] \in {"handle", "running"}
    /\ cpu_timer[r] = "alive"

\* The first CPU usage sample arrives.
SupFirstSample(r) ==
    /\ Governing(r)
    /\ sup[r].state = "Idle"
    /\ sup' = [sup EXCEPT ![r].state = "Active"]
    /\ UNCHANGED <<auxVars,
                   worker, pool_rx_open, pool_log, events_log, cancel_raised,
                   pc, task, engine_opts, boot_result, booter_signal, stream,
                   term_tx, term_chan, cpu_timer, result>>

\* A trigger fires: the policy is violated, the cancellation signal is up,
\* the engine reports a fault, or the engine finished its work.
SupTrigger(r) ==
    /\ Governing(r)
    /\ sup[r].state \in {"Idle", "Active"}
    /\ \E c \in Causes :
        /\ (c = "cancel") => (sup[r].cancel /\ cancel_raised)
        /\ sup' = [sup EXCEPT ![r].state = "Terminating", ![r].cause = c]
    /\ UNCHANGED <<auxVars,
                   worker, pool_rx_open, pool_log, events_log, cancel_raised,
                   pc, task, engine_opts, boot_result, booter_signal, stream,
                   term_tx, term_chan, cpu_timer, result>>

\* The outcome is written to the single-shot channel; the sender is consumed.
SupReport(r) ==
    /\ Governing(r)
    /\ sup[r].state = "Terminating"
    /\ term_tx[r] = "supervisor"
    /\ sup' = [sup EXCEPT ![r].state = "Reported"]
    /\ term_tx' = [term_tx EXCEPT ![r] = "used"]
    /\ term_chan' = [term_chan EXCEPT ![r] = OutcomeOf(sup[r].cause)]
    /\ UNCHANGED <<auxVars,
                   worker, pool_rx_open, pool_log, events_log, cancel_raised,
                   pc, task, engine_opts, boot_result, booter_signal, stream,
                   cpu_timer, result>>

(***************************************************************************)
(* The boot task, continued: the completion routine returns (line 134),    *)
(* the result is reported (143-164), the pool is notified (166-175).       *)
(***************************************************************************)

Outcomes == {"Shutdown", "UncaughtException"}

\* WorkerHandler::handle_creation: what the completion routine can return.  A
\* supervised engine runs until its termination outcome arrives and returns
\* it; an unsupervised one runs until it finishes or faults.  Either can
\* return an error instead.
CompletionResults(r) ==
    IF sup[r].state = "none"
    THEN {Ok(e) : e \in Outcomes} \cup {Err}
    ELSE {Ok(term_chan[r]), Err}

CompletionReady(r) ==
    (sup[r].state # "none") => (term_chan[r] \in Outcomes)

\* data.await returns and the Ok arm of line 103 ends: `_cpu_timer` and, if it
\* was never moved, `termination_event_tx` go out of scope.
Completion(r) ==
    /\ pc[r] = "running"
    /\ CompletionReady(r)
    /\ \E res \in CompletionResults(r) :
        result' = [result EXCEPT ![r] = res]
    /\ cpu_timer' = [cpu_timer EXCEPT
                       ![r] = IF @ = "alive" THEN "dropped" ELSE @]
    /\ term_tx' = [term_tx EXCEPT ![r] = IF @ = "task" THEN "dropped" ELSE @]
    /\ stream' = [stream EXCEPT ![r] = "dropped"]
    /\ pc' = [pc EXCEPT ![r] = "report"]
    /\ UNCHANGED <<auxVars,
                   worker, pool_rx_open, pool_log, events_log, cancel_raised,
                   task, engine_opts, boot_result, booter_signal, term_chan,
                   sup>>

\* send_event_if_event_worker_available: push the event with its metadata if
\* a sink is configured.
send_event_if_event_worker_available(log, r, tx, event, metadata) ==
    IF tx
    THEN Append(log, [run |-> r, event |-> event, metadata |-> metadata])
    ELSE log

\* match result (lines 143-164): an event is forwarded, an error is logged.
Report(r) ==
    /\ pc[r] = "report"
    /\ events_log' =
         IF result[r].tag = "Ok"
         THEN send_event_if_event_worker_available(
                  events_log, r, task[r].events_msg_tx, result[r].event,
                  task[r].event_metadata)
         ELSE events_log
    /\ pc' = [pc EXCEPT ![r] = "notify"]
    /\ UNCHANGED <<auxVars,
                   worker, pool_rx_open, pool_log, cancel_raised, task,
                   engine_opts, boot_result, booter_signal, stream, term_tx,
                   term_chan, sup, cpu_timer, result>>

\* tx.send(UserWorkerMsgs::Shutdown(key)) on an unbounded channel: it fails,
\* and is only logged, when the receiver is gone.
PoolSend(log, r, key) ==
    Append(log, [run |-> r, msg |-> "Shutdown", key |-> key,
                 delivered |-> pool_rx_open])

\* NotifyPool placed before the `match result` of line 143: the pool is
\* notified while the result is still to be reported.
NotifyPool_BeforeReport(r) ==
    /\ pc[r] = "report"
    /\ SelectSeq(pool_log, LAMBDA m : m.run = r) = <<>>
    /\ task[r].worker_key # None /\ task[r].pool_msg_tx
    /\ pool_log' = PoolSend(pool_log, r, task[r].worker_key)
    /\ UNCHANGED <<auxVars,
                   worker, pool_rx_open, events_log, cancel_raised, runVars>>

\* NotifyPool that sends again when the send failed: the task stays at the
\* notification until a send is delivered.
NotifyPool_RetryOnFailure(r) ==
    /\ pc[r] = "notify"
    /\ Len(pool_log) < 3
    /\ pool_log' =
         IF task[r].worker_key # None /\ task[r].pool_msg_tx
         THEN PoolSend(pool_log, r, task[r].worker_key)
         ELSE pool_log
    /\ stream' = [stream EXCEPT ![r] = IF @ = "task" THEN "dropped" ELSE @]
    /\ pc' = [pc EXCEPT
                ![r] = IF task[r].worker_key # None /\ task[r].pool_msg_tx
                          /\ ~pool_rx_open
                       THEN "notify" ELSE "done"]
    /\ UNCHANGED <<auxVars,
                   worker, pool_rx_open, events_log, cancel_raised, task,
                   engine_opts, boot_result, booter_signal, term_tx, term_chan,
                   sup, cpu_timer, result>>

\* worker_key.and_then(|k| pool_msg_tx.map(|tx| tx.send(Shutdown(k))))
\* (lines 166-175), then the task returns Ok(()) (line 177).
NotifyPool(r) ==
    /\ pc[r] = "notify"
    /\ pool_log' =
         IF task[r].worker_key # None /\ task[r].pool_msg_tx
         THEN PoolSend(pool_log, r, task[r].worker_key)
         ELSE pool_log
    /\ stream' = [stream EXCEPT ![r] = IF @ = "task" THEN "dropped" ELSE @]
    /\ pc' = [pc EXCEPT ![r] = "done"]
    /\ UNCHANGED <<auxVars,
                   worker, pool_rx_open, events_log, cancel_raised, task,
                   engine_opts, boot_result, booter_signal, term_tx, term_chan,
                   sup, cpu_timer, result>>

(***************************************************************************)
(* The environment.                                                        *)
(***************************************************************************)

\* An external authority raises the shared cancellation signal (Arc<Notify>).
RaiseCancel ==
    /\ worker.cancel
    /\ ~cancel_raised
    /\ cancel_raised' = TRUE
    /\ UNCHANGED <<auxVars,
                   worker, pool_rx_open, pool_log, events_log, runVars>>

\* The registry drops the receiver of the pool-notification channel.
ClosePoolRx ==
    /\ worker.pool_msg_tx
    /\ pool_rx_open
    /\ pool_rx_open' = FALSE
    /\ UNCHANGED <<auxVars,
                   worker, pool_log, events_log, cancel_raised, runVars>>

Next ==
    \/ \E r \in Runs : Start(r)
    \/ \E r \in Runs : BootOk(r)
    \/ \E r \in Runs : BootErr(r)
    \/ \E r \in Runs : SkipSupervisor(r)
    \/ \E r \in Runs : CreateSupervisorOk(r)
    \/ \E r \in Runs : CreateSupervisorErr(r)
    \/ \E r \in Runs : HandleCreation(r)
    \/ \E r \in Runs : SupFirstSample(r)
    \/ \E r \in Runs : SupTrigger(r)
    \/ \E r \in Runs : SupReport(r)
    \/ \E r \in Runs : Completion(r)
    \/ \E r \in Runs : Report(r)
    \/ \E r \in Runs : NotifyPool(r)
    \/ RaiseCancel
    \/ ClosePoolRx

Spec == Init /\ [][Next]_vars

(***************************************************************************)
(* Worker::set_supervisor_policy, and the specification in which the owner *)
(* of the Worker calls it at any time between and after start() calls.     *)
(* The Worker here has an Identity and no sink, pool or cancellation       *)
(* signal: none of them reads or writes the policy.                        *)
(***************************************************************************)

\* set_supervisor_policy(&mut self, supervisor_policy) (lines 73-75).
SetSupervisorPolicy ==
    /\ \E p \in Option(Policies) :
        /\ p # worker.supervisor_policy
        /\ worker' = [worker EXCEPT !.supervisor_policy = p]
    /\ UNCHANGED <<auxVars,
                   pool_rx_open, pool_log, events_log, cancel_raised, runVars>>

InitPolicy ==
    /\ Init
    /\ worker.worker_key \in Keys
    /\ ~worker.events_msg_tx
    /\ ~worker.pool_msg_tx
    /\ ~worker.cancel

NextPolicy ==
    \/ SetSupervisorPolicy
    \/ \E r \in Runs : Start(r)
    \/ \E r \in Runs : BootOk(r)
    \/ \E r \in Runs : BootErr(r)
    \/ \E r \in Runs : SkipSupervisor(r)
    \/ \E r \in Runs : CreateSupervisorOk(r)
    \/ \E r \in Runs : CreateSupervisorErr(r)
    \/ \E r \in Runs : HandleCreation(r)
    \/ \E r \in Runs : SupFirstSample(r)
    \/ \E r \in Runs : SupTrigger(r)
    \/ \E r \in Runs : SupReport(r)
    \/ \E r \in Runs : Completion(r)
    \/ \E r \in Runs : Report(r)
    \/ \E r \in Runs : NotifyPool(r)

SpecPolicy == InitPolicy /\ [][NextPolicy]_vars

(***************************************************************************)
(* The specification in which start() is called once more than in Spec, on *)
(* the Worker or on a clone of it (#[derive(Clone)] copies every field,    *)
(* worker_key included, so the two are the same record).  The Worker is    *)
(* tenant-isolated: it has an Identity and a pool endpoint.                *)
(***************************************************************************)

Calls == 1..(MaxRuns + 1)

InitCalls ==
    /\ AuxQuiet
    /\ worker = [events_msg_tx |-> FALSE, pool_msg_tx |-> TRUE,
                 cancel |-> FALSE, event_metadata |-> "meta",
                 worker_key |-> "k1", supervisor_policy |-> None]
    /\ pool_rx_open = TRUE
    /\ pool_log = <<>>
    /\ events_log = <<>>
    /\ cancel_raised = FALSE
    /\ pc = [r \in Calls |-> "idle"]
    /\ task = [r \in Calls |-> NoTask]
    /\ engine_opts = [r \in Calls |-> [timing |-> None, is_user_worker |-> FALSE]]
    /\ boot_result = [r \in Calls |-> "none"]
    /\ booter_signal = [r \in Calls |-> "none"]
    /\ stream = [r \in Calls |-> "caller"]
    /\ term_tx = [r \in Calls |-> "none"]
    /\ term_chan = [r \in Calls |-> "none"]
    /\ sup = [r \in Calls |-> NoSupervisor]
    /\ cpu_timer = [r \in Calls |-> "none"]
    /\ result = [r \in Calls |-> NoResult]

NextCalls ==
    \/ \E r \in Calls : Start(r)
    \/ \E r \in Calls : BootOk(r)
    \/ \E r \in Calls : BootErr(r)
    \/ \E r \in Calls : SkipSupervisor(r)
    \/ \E r \in Calls : CreateSupervisorOk(r)
    \/ \E r \in Calls : CreateSupervisorErr(r)
    \/ \E r \in Calls : HandleCreation(r)
    \/ \E r \in Calls : SupFirstSample(r)
    \/ \E r \in Calls : SupTrigger(r)
    \/ \E r \in Calls : SupReport(r)
    \/ \E r \in Calls : Completion(r)
    \/ \E r \in Calls : Report(r)
    \/ \E r \in Calls : NotifyPool(r)

SpecCalls == InitCalls /\ [][NextCalls]_vars

(***************************************************************************)
(* crates/sb_core/lib.rs: op_runtime_metrics and                           *)
(* RuntimeMetricSource::get_heap_statistics.  The requester asks the main  *)
(* engine, then the event engine, to run interrupt_fn at its next safe     *)
(* point; the engine's thread runs it, or the isolate is disposed of.      *)
(* "stats" is a gathered WorkerHeapStatistics, "default" is                *)
(* WorkerHeapStatistics::default().                                        *)
(***************************************************************************)

\* RuntimeMetricSource.main always exists, .event is an Option.
Present(e) == (e = "event") => hs_event

\* The future of engine e resolved to v: unwrap_or_default and on to the
\* event engine (lines 128-130), or the struct is complete (132-133), the
\* op returns it and the Ref of line 190 goes out of scope (199-200).
Finish(e, v) ==
    IF e = "main"
    THEN /\ heap_stats' = [heap_stats EXCEPT
                             !.main = IF v = None THEN "default" ELSE v]
         /\ hs_pc' = At("request", "event")
         /\ op_state' = op_state
    ELSE /\ heap_stats' = [heap_stats EXCEPT !.event = v]
         /\ hs_pc' = At("done", None)
         /\ op_state' = 0

\* op_runtime_metrics up to the call of get_heap_statistics (189-196):
\* `let state = state.borrow();` takes a shared borrow of the op state,
\* which lives to the end of the function.
OpRuntimeMetrics ==
    /\ hs_pc = At("idle", None)
    /\ hs_pc' = At("request", "main")
    /\ op_state' = op_state + 1
    /\ UNCHANGED <<hs_event, isolate, interrupt, req, heap_stats,
                   borrow_mut_error, notMetricsVars>>

\* Another op of the same runtime is called with `state: &mut OpState`
\* (op_is_terminal, 171-175): the op state is borrowed mutably for the
\* call, which fails if a shared borrow is outstanding.  Ops of one runtime
\* run on one thread: it is called while no other op is running, that is
\* while op_runtime_metrics is not started, suspended, or over.
op_is_terminal ==
    /\ hs_pc.at \in {"idle", "await", "done", "dropped"}
    /\ borrow_mut_error' = (borrow_mut_error \/ op_state > 0)
    /\ UNCHANGED <<hs_pc, hs_event, isolate, interrupt, req, heap_stats,
                   op_state, notMetricsVars>>

\* request_heap_statistics_fn(None): a ready None (103-105).
RequestNoSource ==
    /\ hs_pc = At("request", "event")
    /\ ~Present("event")
    /\ Finish("event", None)
    /\ UNCHANGED <<hs_event, isolate, interrupt, req, borrow_mut_error,
                   notMetricsVars>>

\* request_interrupt returned true (107-113, 118-124): the box is the
\* isolate's, the future is built.
RequestInterruptAccepted(e) ==
    /\ hs_pc = At("request", e)
    /\ Present(e)
    /\ isolate[e] = "running"
    /\ req' = [req EXCEPT ![e] = [boxed |-> TRUE, reclaimed |-> <<>>,
                                  heap_chan |-> "open", woken |-> FALSE,
                                  accepted |-> "yes"]]
    /\ interrupt' = [interrupt EXCEPT ![e] = "queued"]
    /\ hs_pc' = At("poll", e)
    /\ UNCHANGED <<hs_event, isolate, heap_stats, opVars,
                   notMetricsVars>>

\* request_interrupt returned false and the box is left where it is.
RequestInterruptRejected_Leak(e) ==
    /\ hs_pc = At("request", e)
    /\ Present(e)
    /\ isolate[e] = "disposed"
    /\ req' = [req EXCEPT ![e] = [boxed |-> TRUE, reclaimed |-> <<>>,
                                  heap_chan |-> "open", woken |-> FALSE,
                                  accepted |-> "no"]]
    /\ Finish(e, None)
    /\ UNCHANGED <<hs_event, isolate, interrupt, borrow_mut_error,
                   notMetricsVars>>

\* request_interrupt returned false (107-116): the requester takes the box
\* back and drops it, the sender with it; a ready None.
RequestInterruptRejected(e) ==
    /\ hs_pc = At("request", e)
    /\ Present(e)
    /\ isolate[e] = "disposed"
    /\ req' = [req EXCEPT ![e] = [boxed |-> TRUE,
                                  reclaimed |-> <<"requester">>,
                                  heap_chan |-> "closed", woken |-> FALSE,
                                  accepted |-> "no"]]
    /\ Finish(e, None)
    /\ UNCHANGED <<hs_event, isolate, interrupt, borrow_mut_error,
                   notMetricsVars>>

\* The main engine's future is polled once and left behind: the requester
\* goes on to the event engine without awaiting the reply.
PollRequest_NoAwait(e) ==
    /\ hs_pc = At("poll", e)
    /\ req' = [req EXCEPT ![e].woken = TRUE]
    /\ hs_pc' = IF e = "main" THEN At("request", "event") ELSE At("await", e)
    /\ UNCHANGED <<hs_event, isolate, interrupt, heap_stats, opVars,
                   notMetricsVars>>

\* The first poll of the future: waker.wake(), then rx.await (121-122).
PollRequest(e) ==
    /\ hs_pc = At("poll", e)
    /\ req' = [req EXCEPT ![e].woken = TRUE]
    /\ hs_pc' = At("await", e)
    /\ UNCHANGED <<hs_event, isolate, interrupt, heap_stats, opVars,
                   notMetricsVars>>

\* rx.await.ok() resolves (122): the value sent, or None when the sender
\* went away without sending.
Resume(e) ==
    /\ hs_pc = At("await", e)
    /\ req[e].heap_chan \in {"sent", "closed"}
    /\ Finish(e, IF req[e].heap_chan = "sent" THEN "stats" ELSE None)
    /\ UNCHANGED <<hs_event, isolate, interrupt, req, borrow_mut_error,
                   notMetricsVars>>

\* interrupt_fn on the engine's thread (76-100): takes the box, gathers
\* the statistics, sends them; a failed send is logged.
interrupt_fn(e) ==
    /\ interrupt[e] = "queued"
    /\ isolate[e] = "running"
    /\ req' = [req EXCEPT
                 ![e].reclaimed = Append(@, "callback"),
                 ![e].heap_chan = IF @ = "open" THEN "sent" ELSE @]
    /\ interrupt' = [interrupt EXCEPT ![e] = "ran"]
    /\ UNCHANGED <<hs_pc, hs_event, isolate, heap_stats, opVars,
                   notMetricsVars>>

\* The runtime that polls the op goes away while the op is suspended: the
\* future is dropped, and the receiver with it, so that the send of line
\* 97 fails.
DropOp(e) ==
    /\ hs_pc = At("await", e)
    /\ req[e].heap_chan = "open"
    /\ req' = [req EXCEPT ![e].heap_chan = "rx_dropped"]
    /\ hs_pc' = At("dropped", None)
    /\ op_state' = 0
    /\ UNCHANGED <<hs_event, isolate, interrupt, heap_stats, borrow_mut_error,
                   notMetricsVars>>

\* The engine stops: its isolate is disposed of, from then on
\* request_interrupt returns false (110-113); an interrupt still queued is
\* discarded with the isolate, its callback never runs.
IsolateDispose(e) ==
    /\ Present(e)
    /\ isolate[e] = "running"
    /\ isolate' = [isolate EXCEPT ![e] = "disposed"]
    /\ interrupt' = [interrupt EXCEPT
                       ![e] = IF @ = "queued" THEN "discarded" ELSE @]
    /\ UNCHANGED <<hs_pc, hs_event, req, heap_stats, opVars,
                   notMetricsVars>>

\* A Worker that is never started.
WorkerQuiet ==
    /\ worker = [events_msg_tx |-> FALSE, pool_msg_tx |-> FALSE,
                 cancel |-> FALSE, event_metadata |-> "meta",
                 worker_key |-> None, supervisor_policy |-> None]
    /\ pool_rx_open = TRUE
    /\ pool_log = <<>>
    /\ events_log = <<>>
    /\ cancel_raised = FALSE
    /\ pc = [r \in Runs |-> "idle"]
    /\ task = [r \in Runs |-> NoTask]
    /\ engine_opts = [r \in Runs |-> [timing |-> None, is_user_worker |-> FALSE]]
    /\ boot_result = [r \in Runs |-> "none"]
    /\ booter_signal = [r \in Runs |-> "none"]
    /\ stream = [r \in Runs |-> "caller"]
    /\ term_tx = [r \in Runs |-> "none"]
    /\ term_chan = [r \in Runs |-> "none"]
    /\ sup = [r \in Runs |-> NoSupervisor]
    /\ cpu_timer = [r \in Runs |-> "none"]
    /\ result = [r \in Runs |-> NoResult]

\* RuntimeMetricSource::new (63-68): with or without an event engine.
InitMetrics ==
    /\ WorkerQuiet
    /\ SupervisorQuiet
    /\ RegistryQuiet
    /\ DhQuiet
    /\ hs_pc = At("idle", None)
    /\ hs_event \in BOOLEAN
    /\ isolate = [e \in Engines |-> "running"]
    /\ interrupt = [e \in Engines |-> "none"]
    /\ req = [e \in Engines |-> NoRequest]
    /\ heap_stats = [main |-> "unset", event |-> "unset"]
    /\ op_state = 0
    /\ borrow_mut_error = FALSE

NextMetrics ==
    \/ OpRuntimeMetrics
    \/ op_is_terminal
    \/ RequestNoSource
    \/ \E e \in Engines : RequestInterruptAccepted(e)
    \/ \E e \in Engines : RequestInterruptRejected(e)
    \/ \E e \in Engines : PollRequest(e)
    \/ \E e \in Engines : Resume(e)
    \/ \E e \in Engines : interrupt_fn(e)
    \/ \E e \in Engines : DropOp(e)
    \/ \E e \in Engines : IsolateDispose(e)

SpecMetrics == InitMetrics /\ [][NextMetrics]_vars

\* The requester is polled while it can make a step, and waker.wake() has
\* the engine reach a safe point while its isolate lives.
RequesterStep ==
    \/ RequestNoSource
    \/ \E e \in Engines : RequestInterruptAccepted(e)
    \/ \E e \in Engines : RequestInterruptRejected(e)
    \/ \E e \in Engines : PollRequest(e)
    \/ \E e \in Engines : Resume(e)

SpecMetricsFair ==
    /\ SpecMetrics
    /\ WF_vars(RequesterStep)
    /\ \A e \in Engines : WF_vars(interrupt_fn(e))

(***************************************************************************)
(* The Supervisor's governance (design document, sections 4.2 and 8): CPU  *)
(* usage samples are accumulated and the policy is evaluated after each    *)
(* sample and on every tick of the ticker; the cancellation signal, a      *)
(* fault and the completion of the engine terminate whatever the policy.   *)
(* PerWorker is the whole-lifetime budget, PerRequest the per-request one. *)
(***************************************************************************)

\* The configured ceiling B, the largest sample, the requests served.
Budget == 2
MaxSample == 2
MaxRequests == 2

Min(a, b) == IF a < b THEN a ELSE b
Max(a, b) == IF a < b THEN b ELSE a

\* The ceiling is passed when the total is above it.
OverBudget_Exceeds(a) == a > Budget

\* The ceiling is reached: the accumulated total is B or more (section 8).
OverBudget(a) == a >= Budget

Terminate(s, c) == [s EXCEPT !.state = "Terminating", !.cause = c]

\* The policy evaluated on accumulator a.  Whole-lifetime: terminate,
\* whatever is in flight.  Per-request: terminate if no other request is
\* pending, otherwise mark for termination at the next idle point.
Evaluate(s, a) ==
    LET s1 == [s EXCEPT !.acc = a]
    IN  IF ~OverBudget(a) THEN s1
        ELSE IF s.policy = "PerWorker" THEN Terminate(s1, "policy")
        ELSE IF s.pending <= 1 THEN Terminate(s1, "policy")
        ELSE [s1 EXCEPT !.marked = TRUE]

Waiting == sv.state \in {"Idle", "Active"}

\* A tick has passed with the signal up and the Supervisor still waiting.
Late(o, s) ==
    IF sv_cancel /\ s.state \in {"Idle", "Active"}
    THEN [o EXCEPT !.late = 1]
    ELSE o

\* create_supervisor: the Supervisor starts Idle under the policy given.
SvCreate ==
    /\ sv.state = "none"
    /\ \E p \in Policies : sv' = [NoSv EXCEPT !.state = "Idle", !.policy = p]
    /\ UNCHANGED <<sv_cancel, sv_chan, sv_obs, notSupVars>>

\* An external authority raises the shared cancellation signal.
SvRaiseCancel ==
    /\ ~sv_cancel
    /\ sv_cancel' = TRUE
    /\ sv_obs' = [sv_obs EXCEPT !.raised_in = sv.state]
    /\ UNCHANGED <<sv, sv_chan, notSupVars>>

\* A CPU usage sample of d units arrives: accumulate, evaluate.
SvSample(d) ==
    /\ Waiting
    /\ sv.acc < Budget
    /\ sv' = Evaluate([sv EXCEPT !.state = "Active"], sv.acc + d)
    /\ sv_obs' = [sv_obs EXCEPT
                    !.used = @ + d,
                    !.peak = Max(@, sv_obs.used + d),
                    !.sum = Min(@ + d, Budget)]
    /\ UNCHANGED <<sv_cancel, sv_chan, notSupVars>>

\* The ticker fires and only the policy is looked at.
SvTick_PolicyOnly ==
    /\ Waiting
    /\ sv' = IF sv.state = "Active" /\ ~sv.marked
             THEN Evaluate(sv, sv.acc) ELSE sv
    /\ sv_obs' = Late(sv_obs, sv')
    /\ UNCHANGED <<sv_cancel, sv_chan, notSupVars>>

\* The ticker fires: the cancellation signal, if it is up, terminates
\* whatever was accumulated; otherwise the policy is evaluated.
SvTick ==
    /\ Waiting
    /\ sv' = IF sv_cancel THEN Terminate(sv, "cancel")
             ELSE IF sv.state = "Active" /\ ~sv.marked
             THEN Evaluate(sv, sv.acc) ELSE sv
    /\ sv_obs' = Late(sv_obs, sv')
    /\ UNCHANGED <<sv_cancel, sv_chan, notSupVars>>

\* A request boundary that leaves the accumulator as it is.
SvRequestStart_NoReset ==
    /\ Waiting
    /\ sv_obs.requests < MaxRequests
    /\ sv' = [sv EXCEPT !.pending = @ + 1]
    /\ sv_obs' = [sv_obs EXCEPT !.used = 0, !.requests = @ + 1]
    /\ UNCHANGED <<sv_cancel, sv_chan, notSupVars>>

\* The engine signals a request boundary: a request begins.  Under the
\* per-request policy the accumulator is reset.
SvRequestStart ==
    /\ Waiting
    /\ sv_obs.requests < MaxRequests
    /\ sv' = [sv EXCEPT !.pending = @ + 1,
                        !.acc = IF sv.policy = "PerRequest" THEN 0 ELSE @]
    /\ sv_obs' = [sv_obs EXCEPT !.used = 0, !.requests = @ + 1]
    /\ UNCHANGED <<sv_cancel, sv_chan, notSupVars>>

\* A request ends; a Supervisor marked for termination terminates at the
\* idle point.
SvRequestEnd ==
    /\ Waiting
    /\ sv.pending > 0
    /\ sv' = IF sv.marked /\ sv.pending = 1
             THEN Terminate([sv EXCEPT !.pending = 0], "policy")
             ELSE [sv EXCEPT !.pending = @ - 1]
    /\ UNCHANGED <<sv_cancel, sv_chan, sv_obs, notSupVars>>

\* The engine reports an uncaught fault.
SvFault ==
    /\ Waiting
    /\ sv' = Terminate(sv, "fault")
    /\ UNCHANGED <<sv_cancel, sv_chan, sv_obs, notSupVars>>

\* The completion routine returns: the engine finished its own work.
SvComplete ==
    /\ Waiting
    /\ sv' = Terminate(sv, "complete")
    /\ UNCHANGED <<sv_cancel, sv_chan, sv_obs, notSupVars>>

\* The outcome is written to the single-shot channel, once.
SvReport ==
    /\ sv.state = "Terminating"
    /\ sv' = [sv EXCEPT !.state = "Reported"]
    /\ sv_chan' = OutcomeOf(sv.cause)
    /\ UNCHANGED <<sv_cancel, sv_obs, notSupVars>>

InitSupervisor ==
    WorkerQuiet /\ MetricsQuiet /\ RegistryQuiet /\ DhQuiet /\ SupervisorQuiet

NextSupervisor ==
    \/ SvCreate
    \/ SvRaiseCancel
    \/ \E d \in 0..MaxSample : SvSample(d)
    \/ SvTick
    \/ SvRequestStart
    \/ SvRequestEnd
    \/ SvFault
    \/ SvComplete
    \/ SvReport

SpecSupervisor == InitSupervisor /\ [][NextSupervisor]_vars

(***************************************************************************)
(* The registry of Pool Coordination (design document, sections 3 and      *)
(* 4.3): Workers are registered under their Identity; any component may    *)
(* send Shutdown(identity) to the inbound channel; the consumer removes    *)
(* the record, if there is one, and releases what is keyed by it.          *)
(***************************************************************************)

\* The identities, and the number of Shutdown messages ever sent.
RegKeys == {"k1", "k2"}
MaxMsgs == 3

\* A Shutdown for an identity without a live record is an error.
OnShutdown_UnknownIsError(reg, k) ==
    IF k \in reg.records
    THEN [reg EXCEPT !.records = @ \ {k}, !.routes = @ \ {k}]
    ELSE [reg EXCEPT !.failed = TRUE]

\* The consumer's handling of Shutdown(k): remove the record if present
\* and release what it keys; otherwise nothing.
OnShutdown(reg, k) ==
    IF k \in reg.records
    THEN [reg EXCEPT !.records = @ \ {k}, !.routes = @ \ {k}]
    ELSE reg

\* A Worker is registered under a fresh Identity (never one used before).
RegRegister(k) ==
    /\ k \notin registry.seen
    /\ registry' = [registry EXCEPT !.records = @ \cup {k},
                                    !.routes = @ \cup {k},
                                    !.seen = @ \cup {k}]
    /\ UNCHANGED <<reg_inbox, reg_log, notRegVars>>

\* A producer sends Shutdown(k): fire-and-forget, the channel is unbounded.
RegSend(k) ==
    /\ Len(reg_inbox) + Len(reg_log) < MaxMsgs
    /\ reg_inbox' = Append(reg_inbox, k)
    /\ UNCHANGED <<registry, reg_log, notRegVars>>

\* The consumer takes the next message and handles it.
RegConsume ==
    /\ reg_inbox # <<>>
    /\ LET k == Head(reg_inbox)
       IN  /\ registry' = OnShutdown(registry, k)
           /\ reg_log' = Append(reg_log,
                                [key |-> k, live |-> k \in registry.records])
    /\ reg_inbox' = Tail(reg_inbox)
    /\ UNCHANGED notRegVars

InitRegistry ==
    WorkerQuiet /\ MetricsQuiet /\ SupervisorQuiet /\ DhQuiet /\ RegistryQuiet

NextRegistry ==
    \/ \E k \in RegKeys : RegRegister(k)
    \/ \E k \in RegKeys : RegSend(k)
    \/ RegConsume

SpecRegistry == InitRegistry /\ [][NextRegistry]_vars

(***************************************************************************)
(* crates/node/ops/crypto/dh.rs: DiffieHellman::group::<G>() for the       *)
(* well-known MODP groups.  A BigUint is modelled by its length in bits: a *)
(* value of at most n bits is any value of [0, 2^n).                       *)
(***************************************************************************)

Groups == {"Modp1536", "Modp2048", "Modp3072", "Modp4096", "Modp6144",
           "Modp8192"}

\* DiffieHellmanGroup::EXPONENT_SIZE, "Size of the exponent in bits"
\* (lines 84-85, 93, 111, 132, 157, 187, 226).
EXPONENT_SIZE(G) ==
    CASE G = "Modp1536" -> 192
      [] G = "Modp2048" -> 256
      [] G = "Modp3072" -> 384
      [] G = "Modp4096" -> 512
      [] G = "Modp6144" -> 768
      [] G = "Modp8192" -> 1024

\* RandBigInt::gen_biguint(bit_size): a random BigUint of at most bit_size
\* bits; the lengths it can have.
gen_biguint(bit_size) == 0..bit_size

\* PrivateKey::new(exponent_size) (lines 19-23): the keys it can return.
PrivateKey_new(exponent_size) ==
    {[bit_size |-> exponent_size, bits |-> n] : n \in gen_biguint(exponent_size)}

\* DiffieHellman::group::<G>() (lines 44-59).
DiffieHellman_group(G) ==
    /\ \E k \in PrivateKey_new(EXPONENT_SIZE(G) \div 8) :
        dh' = [group |-> G, private_key |-> k]
    /\ UNCHANGED notDhVars

InitDh == WorkerQuiet /\ MetricsQuiet /\ SupervisorQuiet /\ RegistryQuiet /\ DhQuiet

NextDh == \E G \in Groups : DiffieHellman_group(G)

SpecDh == InitDh /\ [][NextDh]_vars

(***************************************************************************)
(* Observations used by the properties.                                    *)
(***************************************************************************)

\* The pool messages / the events that the boot task of call r has sent.
ShutdownsBy(r) == SelectSeq(pool_log, LAMBDA m : m.run = r)
EventsBy(r) == SelectSeq(events_log, LAMBDA e : e.run = r)

HasIdentityAndPool(r) == task[r].worker_key # None /\ task[r].pool_msg_tx

SupExists(r) == sup[r].state \in {"Idle", "Active", "Terminating", "Reported"}

\* The boot task of call r returned (it was not shut down unpolled).
TaskEnded(r) == pc[r] = "done"

(***************************************************************************)
(* C1.  Every execution path of the boot task of a Worker that has an      *)
(* Identity and a pool endpoint sends Shutdown(identity) before the task   *)
(* ends: a task that has returned has sent it.                             *)
(***************************************************************************)
C1_ShutdownOnEveryPath ==
    \A r \in Runs :
        (TaskEnded(r) /\ HasIdentityAndPool(r)) =>
            /\ Len(ShutdownsBy(r)) >= 1
            /\ \A i \in 1..Len(ShutdownsBy(r)) :
                   ShutdownsBy(r)[i].key = task[r].worker_key

(***************************************************************************)
(* C2.  Over the whole life of a tenant-isolated Worker with an Identity   *)
(* and a pool endpoint, exactly one Shutdown(identity) is placed on the    *)
(* pool channel: never more than one, and one once every started boot task *)
(* has returned.                                                           *)
(***************************************************************************)
C2_ExactlyOneShutdown ==
    LET sent == SelectSeq(pool_log, LAMBDA m : m.key = worker.worker_key)
        lifeOver == /\ \A r \in Runs : pc[r] \in {"idle", "done"}
                    /\ \E r \in Runs : TaskEnded(r) /\ task[r].is_user_worker
    IN  (worker.worker_key # None /\ worker.pool_msg_tx) =>
            /\ Len(sent) <= 1
            /\ lifeOver => Len(sent) = 1

(***************************************************************************)
(* C3.  Within one run the Shutdown send is the last thing the boot task   *)
(* does: when it has been sent the outcome has been handled (forwarded to  *)
(* the sink if there is one, or logged as an error), and from then on the  *)
(* run pushes no event, sends nothing more to the pool and changes nothing *)
(* of its own state or of its Supervisor's.                                *)
(***************************************************************************)
C3_Handled(r) ==
    /\ pc[r] = "done"
    /\ result[r].tag \in {"Ok", "Err"}
    /\ (result[r].tag = "Ok" /\ task[r].events_msg_tx) =>
           /\ Len(EventsBy(r)) = 1
           /\ EventsBy(r)[1].event = result[r].event

C3_ShutdownIsLast ==
    /\ [](\A r \in Runs : (Len(ShutdownsBy(r)) > 0) => C3_Handled(r))
    /\ [][\A r \in Runs :
            (Len(ShutdownsBy(r)) > 0) =>
                /\ EventsBy(r)' = EventsBy(r)
                /\ ShutdownsBy(r)' = ShutdownsBy(r)
                /\ pc'[r] = pc[r]
                /\ sup'[r] = sup[r]
                /\ term_chan'[r] = term_chan[r]
                /\ result'[r] = result[r]]_vars

C3_Witness ==
    \E r \in Runs :
        /\ Len(ShutdownsBy(r)) = 1
        /\ Len(EventsBy(r)) = 1
        /\ sup[r].state = "Reported"

(***************************************************************************)
(* C4.  When engine boot fails: the boot signal carries an error; no       *)
(* Supervisor is created, no termination channel exists and the connection *)
(* stream is never handed to a completion routine; the sink, if there is   *)
(* one, gets exactly one event, the boot-failure event of handle_error     *)
(* with the worker's metadata; the pool gets Shutdown(identity) exactly    *)
(* when the Worker has an Identity and a pool endpoint.                    *)
(***************************************************************************)
C4_BootFailure ==
    \A r \in Runs :
        (boot_result[r] = "err") =>
            /\ booter_signal[r] = "err"
            /\ sup[r] = NoSupervisor
            /\ cpu_timer[r] = "none"
            /\ term_tx[r] = "none" /\ term_chan[r] = "none"
            /\ stream[r] \in {"task", "dropped"}
            /\ pc[r] \in {"report", "notify", "done"}
            /\ result[r] = Ok("BootFailure")
            /\ Len(EventsBy(r)) =
                 IF pc[r] # "report" /\ task[r].events_msg_tx THEN 1 ELSE 0
            /\ \A i \in 1..Len(EventsBy(r)) :
                   /\ EventsBy(r)[i].event = "BootFailure"
                   /\ EventsBy(r)[i].metadata = worker.event_metadata
            /\ Len(ShutdownsBy(r)) =
                 IF pc[r] = "done" /\ HasIdentityAndPool(r) THEN 1 ELSE 0
            /\ \A i \in 1..Len(ShutdownsBy(r)) :
                   ShutdownsBy(r)[i].key = worker.worker_key

C4_Witness ==
    \E r \in Runs :
        /\ boot_result[r] = "err"
        /\ pc[r] = "done"
        /\ Len(EventsBy(r)) = 1
        /\ Len(ShutdownsBy(r)) = 1

(***************************************************************************)
(* C5.  The caller of start() gets exactly one value on boot_signal:       *)
(* success iff the engine booted, an error iff it failed; the channel is   *)
(* never closed without a value, and has its value when the run is over.   *)
(***************************************************************************)
C5_BootSignalResolved ==
    \A r \in Runs :
        /\ booter_signal[r] # "closed"
        /\ (booter_signal[r] = "ok") <=> (boot_result[r] = "ok")
        /\ (booter_signal[r] = "err") <=> (boot_result[r] = "err")
        /\ TaskEnded(r) => booter_signal[r] \in {"ok", "err"}

(***************************************************************************)
(* C6.  From the moment the engine has booted the success value is on the  *)
(* boot signal: it is there when the Supervisor is created, when the       *)
(* connection stream is handed to the completion routine, and all the time *)
(* the engine runs.                                                        *)
(***************************************************************************)
C6_BootSignalFirst ==
    \A r \in Runs :
        /\ (boot_result[r] = "ok") => (booter_signal[r] = "ok")
        /\ (sup[r].state # "none") => (booter_signal[r] = "ok")
        /\ (stream[r] = "engine") => (booter_signal[r] = "ok")
        /\ (pc[r] \in {"booted", "handle", "running"}) =>
               (booter_signal[r] = "ok")

C6_Witness ==
    \E r \in Runs :
        /\ booter_signal[r] = "ok"
        /\ pc[r] = "running"
        /\ stream[r] = "engine"
        /\ sup[r].state = "Active"
        /\ result[r] = NoResult

(***************************************************************************)
(* C7.  For a tenant-isolated worker whose engine booted, exactly one      *)
(* Termination Outcome is delivered on the termination channel: the        *)
(* channel holds an outcome when the run has ended, and a consumed sender  *)
(* means an outcome was written.                                           *)
(***************************************************************************)
C7_ExactlyOneOutcome ==
    \A r \in Runs :
        (task[r].is_user_worker /\ boot_result[r] = "ok") =>
            /\ TaskEnded(r) => (term_chan[r] \in Outcomes)
            /\ (term_tx[r] = "used") <=> (term_chan[r] \in Outcomes)

(***************************************************************************)
(* C8.  A run that has ended has pushed exactly one event if a sink is     *)
(* configured, the run's terminal outcome with the worker's metadata, and  *)
(* none if no sink is configured.                                          *)
(***************************************************************************)
C8_ExactlyOneEvent ==
    \A r \in Runs :
        /\ TaskEnded(r) =>
               Len(EventsBy(r)) = IF task[r].events_msg_tx THEN 1 ELSE 0
        /\ \A i \in 1..Len(EventsBy(r)) :
               /\ EventsBy(r)[i].event = result[r].event
               /\ EventsBy(r)[i].metadata = worker.event_metadata

(***************************************************************************)
(* C9 as stated.  Once the run is past the point of Supervisor creation, a *)
(* Supervisor exists for it iff the engine booted and the instance is      *)
(* tenant-isolated.                                                        *)
(***************************************************************************)
PastCreation(r) == pc[r] \in {"handle", "running", "report", "notify", "done"}

C10_GuardAlive ==
    \A r \in Runs :
        /\ (SupExists(r) /\ pc[r] \in {"handle", "running"}) =>
               (cpu_timer[r] = "alive")
        /\ (cpu_timer[r] = "dropped") =>
               (pc[r] \in {"report", "notify", "done"} /\ result[r] # NoResult)

C10_Witness ==
    \E r \in Runs :
        /\ cpu_timer[r] = "dropped"
        /\ result[r].tag = "Ok"
        /\ sup[r].state = "Reported"

(***************************************************************************)
(* C11.  A Shutdown send that fails because the registry's receiver is     *)
(* closed is made once and not repeated, and the run ends as it does when  *)
(* the send succeeds: the boot task has returned, and the sink has got the *)
(* run's event exactly when the result was an event and a sink exists.     *)
(***************************************************************************)
C11_FailedSendIgnored ==
    \A r \in Runs :
        /\ Len(ShutdownsBy(r)) <= 1
        /\ (Len(ShutdownsBy(r)) = 1) =>
               /\ TaskEnded(r)
               /\ Len(EventsBy(r)) =
                    IF result[r].tag = "Ok" /\ task[r].events_msg_tx
                    THEN 1 ELSE 0

C11_Witness ==
    \E r \in Runs :
        /\ Len(ShutdownsBy(r)) = 1
        /\ ~ShutdownsBy(r)[1].delivered
        /\ TaskEnded(r)
        /\ Len(EventsBy(r)) = 1

(***************************************************************************)
(* C12.  The configuration moved into the engine boot call never carries   *)
(* the timing payload, and the Supervisor of a tenant-isolated run that    *)
(* booted holds the payload that was taken out of the configuration.       *)
(***************************************************************************)
C12_TimingToSupervisor ==
    \A r \in Runs :
        /\ engine_opts[r].timing = None
        /\ SupExists(r) => (sup[r].timing = task[r].timing)

C12_Witness ==
    \E r \in Runs :
        /\ SupExists(r)
        /\ sup[r].timing \in Timings
        /\ boot_result[r] = "ok"
        /\ engine_opts[r].timing = None

(***************************************************************************)
(* C13.  The policy of a run is the one the Worker held when start() was   *)
(* called, the default if none was set; no later step, a later             *)
(* set_supervisor_policy included, changes it, and the run's Supervisor is *)
(* created with it.                                                        *)
(***************************************************************************)
C13_PolicyFixedAtStart ==
    [][\A r \in Runs :
         /\ (pc[r] = "idle" /\ pc'[r] # "idle") =>
                (task'[r].supervisor_policy =
                     UnwrapOrDefault(worker.supervisor_policy))
         /\ (pc[r] # "idle") =>
                (task'[r].supervisor_policy = task[r].supervisor_policy)
         /\ (sup'[r].state \in {"Idle", "Active", "Terminating", "Reported"}) =>
                (sup'[r].policy = task'[r].supervisor_policy)]_vars

C13_Witness ==
    \E r \in Runs :
        /\ SupExists(r)
        /\ sup[r].policy = "PerRequest"
        /\ worker.supervisor_policy = "PerWorker"

(***************************************************************************)
(* C14.  At every moment an Identity is held by at most one live run: no   *)
(* two boot tasks that have not ended, and no two Supervisors that are     *)
(* governing, carry the same Identity.                                     *)
(***************************************************************************)
Live(r) == pc[r] \in {"boot", "booted", "handle", "running", "report", "notify"}

C14_IdentityUnique ==
    \A r1 \in Calls, r2 \in Calls :
        (r1 # r2) =>
            /\ (Live(r1) /\ Live(r2) /\ task[r1].worker_key # None) =>
                   (task[r1].worker_key # task[r2].worker_key)
            /\ (SupExists(r1) /\ Governing(r1) /\ SupExists(r2) /\ Governing(r2))
                   => (sup[r1].key # sup[r2].key)

C16_RequestCompletes ==
    (hs_pc.at \in {"request", "poll", "await"})
        ~> (hs_pc.at \in {"done", "dropped"})

(***************************************************************************)
(* C17.  Once the shared cancellation signal is up no tick of the ticker   *)
(* leaves the Supervisor waiting (Idle or Active): the first tick moves it *)
(* to Terminating, whatever CPU time it has accumulated, zero included,    *)
(* and whether the signal was raised while it was Active or before it      *)
(* started to wait.  A Supervisor terminated by the signal reports a       *)
(* Shutdown outcome.                                                       *)
(***************************************************************************)
C17_CancelWithinOneTick ==
    /\ sv_obs.late = 0
    /\ (sv.cause = "cancel") =>
           /\ sv_cancel
           /\ sv.state \in {"Terminating", "Reported"}
           /\ (sv.state = "Reported") => (sv_chan = "Shutdown")

C17_Witness ==
    /\ sv_obs.raised_in = "Active"
    /\ sv.cause = "cancel"
    /\ sv.acc = 0
    /\ sv.state = "Reported"
    /\ sv_chan = "Shutdown"

(***************************************************************************)
(* C18.  Under the whole-lifetime policy with budget B the Supervisor is   *)
(* still waiting exactly while the CPU time used in total is below B: it   *)
(* is Terminating from the first sample that brings the total to B or      *)
(* more, it is never terminated by its policy with a total below B (B-1    *)
(* does not terminate, B does), and requests in flight make no difference  *)
(* (it is never marked to terminate later).                                *)
(***************************************************************************)
C18_WholeLifetimeBoundary ==
    (sv.policy = "PerWorker") =>
        /\ Waiting => (sv_obs.sum < Budget)
        /\ (sv.cause = "policy") => (sv_obs.sum >= Budget)
        /\ ~sv.marked

C18_Witness ==
    /\ sv.policy = "PerWorker"
    /\ sv.cause = "policy"
    /\ sv.acc = Budget
    /\ sv.pending > 0

(***************************************************************************)
(* C19.  Under the per-request policy with budget B the accumulator starts *)
(* again at every request boundary: while no single request has used B or  *)
(* more the Supervisor is neither terminated by its policy nor marked,     *)
(* however many requests there were and however much they used together;   *)
(* once one request has used B or more the Supervisor is terminated, or    *)
(* marked to terminate at the idle point while other requests are pending. *)
(***************************************************************************)
C19_PerRequestReset ==
    (sv.policy = "PerRequest") =>
        /\ (sv.cause = "policy" \/ sv.marked) => (sv_obs.peak >= Budget)
        /\ (sv_obs.peak >= Budget) =>
               \/ sv.state \in {"Terminating", "Reported"}
               \/ sv.marked /\ sv.pending > 0

C19_Witness ==
    /\ sv.policy = "PerRequest"
    /\ Waiting
    /\ ~sv.marked
    /\ sv_obs.requests >= 2
    /\ sv_obs.used = Budget - 1
    /\ sv_obs.peak = Budget - 1
    /\ sv_obs.sum >= Budget

(***************************************************************************)
(* C20.  When the registry consumer handles Shutdown(identity) and the     *)
(* identity has no live record (it was never registered, or an earlier     *)
(* Shutdown removed it), the registry is left exactly as it was and no     *)
(* error is raised; and in every state handling Shutdown for an identity   *)
(* twice gives the registry that handling it once gives.                   *)
(***************************************************************************)
C20_UnknownShutdownNoOp ==
    /\ [](~registry.failed)
    /\ [](\A k \in RegKeys :
            OnShutdown(OnShutdown(registry, k), k) = OnShutdown(registry, k))
    /\ [][(Len(reg_log') > Len(reg_log)
            /\ Head(reg_inbox) \notin registry.records)
          => (registry' = registry)]_vars

C20_Witness ==
    \E i, j \in DOMAIN reg_log :
        /\ i < j
        /\ reg_log[i].key = reg_log[j].key
        /\ reg_log[i].live
        /\ ~reg_log[j].live
        /\ \E n \in DOMAIN reg_log :
               ~reg_log[n].live /\ reg_log[n].key \notin registry.seen

(***************************************************************************)
(* C21.  For every run: the Identity the Supervisor was created with is    *)
(* the run's own Identity, it is the one every Shutdown of the run names,  *)
(* and having a Supervisor and having an Identity go together: a run with  *)
(* a Supervisor has an Identity, and a booted run with an Identity that is *)
(* past Supervisor creation has had one created.                           *)
(***************************************************************************)
C21_SupervisorIdentityAgrees ==
    \A r \in Runs :
        /\ SupExists(r) =>
               /\ task[r].worker_key # None
               /\ sup[r].key = task[r].worker_key
               /\ \A i \in DOMAIN pool_log :
                      (pool_log[i].run = r) => (pool_log[i].key = sup[r].key)
        /\ (PastCreation(r) /\ boot_result[r] = "ok"
              /\ task[r].worker_key # None) => (sup[r].state # "none")

(***************************************************************************)
(* C22.  For a run that is not tenant-isolated and whose engine booted:    *)
(* no Supervisor is ever created, so nothing waits on the cancellation     *)
(* signal and nothing is terminated by it; the termination channel never   *)
(* holds a value and is never closed; its sender stays with the boot task  *)
(* all the time the connection stream is handed over and the completion    *)
(* routine runs, and is dropped only once that routine has returned.  A    *)
(* step that raises the cancellation signal changes nothing of any run.    *)
(***************************************************************************)
C22_UnsupervisedChannelPending ==
    /\ [](\A r \in Runs :
            (boot_result[r] = "ok" /\ ~task[r].is_user_worker) =>
                /\ sup[r] = NoSupervisor
                /\ term_chan[r] = "empty"
                /\ term_tx[r] \in {"task", "dropped"}
                /\ (pc[r] \in {"booted", "handle", "running"})
                       => (term_tx[r] = "task")
                /\ (term_tx[r] = "dropped") => (result[r] # NoResult))
    /\ [][(cancel_raised' # cancel_raised) => UNCHANGED runVars]_vars

C22_Witness ==
    \E r \in Runs :
        /\ ~task[r].is_user_worker
        /\ task[r].cancel
        /\ cancel_raised
        /\ pc[r] = "running"
        /\ term_tx[r] = "task"
        /\ term_chan[r] = "empty"

(***************************************************************************)
(* C23.  op_runtime_metrics holds no borrow of the op state while it is    *)
(* suspended awaiting heap statistics, and no op that borrows the op state *)
(* mutably ever finds it borrowed.                                         *)
(***************************************************************************)
C23_NoBorrowAcrossAwait ==
    /\ (hs_pc.at = "await") => (op_state = 0)
    /\ ~borrow_mut_error

(***************************************************************************)
(* C24.  get_heap_statistics asks the two engines one after the other: the *)
(* requester turns to the event engine, and the event engine's interrupt   *)
(* is requested, only when the main engine's request has finished (its     *)
(* statistics are set); the interrupts of the two engines are never queued *)
(* at the same time; and while the main engine's interrupt is queued, or   *)
(* has been discarded without a reply, nothing has been asked of the event *)
(* engine.                                                                 *)
(***************************************************************************)
C24_OneEngineAtATime ==
    /\ (hs_pc.engine = "event") => (heap_stats["main"] # "unset")
    /\ (req["event"] # NoRequest) => (heap_stats["main"] # "unset")
    /\ ~(interrupt["main"] = "queued" /\ interrupt["event"] = "queued")
    /\ (interrupt["main"] \in {"queued", "discarded"}) =>
           (req["event"] = NoRequest /\ interrupt["event"] = "none")

C24_Witness ==
    /\ interrupt["main"] = "ran"
    /\ heap_stats["main"] = "stats"
    /\ req["event"].accepted = "yes"
    /\ interrupt["event"] = "queued"
    /\ hs_pc = At("await", "event")

(***************************************************************************)
(* C25.  The private exponent of DiffieHellman::group::<G>() is drawn from *)
(* the full range of G::EXPONENT_SIZE bits: the generator is asked for a   *)
(* value of at most EXPONENT_SIZE bits, no fewer, and the exponent has at  *)
(* most that many.                                                         *)
(***************************************************************************)
C25_ExponentFullRange ==
    (dh.group # None) =>
        /\ dh.private_key.bit_size = EXPONENT_SIZE(dh.group)
        /\ dh.private_key.bits <= EXPONENT_SIZE(dh.group)

====
